---- MODULE Spec2Model ----
(***************************************************************************)
(* The BIOS device of the 8086 emulator (packages/x86-cpu/src/devices/BIOS *)
(* /BIOS.ts): the INT 10h/13h/15h/16h service handlers, the host timer     *)
(* and keyboard callbacks they register, and the CPU state they act on.    *)
(*                                                                         *)
(* One action is one guest INT instruction (the registers the guest has    *)
(* loaded are the action's inputs, the handler body is the action's        *)
(* effect) or one host event (timer expiry, keydown, keyup, stop).         *)
(*                                                                         *)
(* The opcode tests (test programs of MOV, ADD, SUB, AND, OR, XOR, HLT)    *)
(* run on an interpreter of those instructions, one action per step.  The  *)
(* PreprocessorInterpreter (X86Unit.ts) is a machine of its own: its macro *)
(* table, and one action per method call.                                  *)
(***************************************************************************)
EXTENDS Integers, Sequences, FiniteSets, TLC

VARIABLES
  regs,       \* cpu.registers: ax bx cx dx es cs ip sp and status.cf / status.zf
  pause,      \* cpu.pause
  mem,        \* guest memory bytes written since boot (address -> byte)
  timers,     \* host timers scheduled with setTimeout and not yet fired
  keymap,     \* initKeyboard's keymap closure object
  drives,     \* BIOS.drives
  device,     \* cpu.device, the boot medium
  screen,     \* BIOS.screen: page, mode
  vga,        \* the VGA device: text cursor location, textMode
  hostError,  \* a handler has thrown a host (JavaScript) exception
  lastOp,     \* the operation executed last
  halted,     \* the scheduler's halted flag: set by HLT and by stop()
  program,    \* the machine code loaded at 0000:7C00 by boot(), instruction by instruction
  ext,        \* the upper halves of the 32-bit views EAX, ECX, EDX, EBX
  pp          \* the PreprocessorInterpreter: its macro table and its last evaluation

vars == <<regs, pause, mem, timers, keymap, drives, device, screen, vga, hostError, lastOp,
          halted, program, ext, pp>>

NULL == "null"

\* keymap.key === null: no key is held
NoKey == -1

----------------------------------------------------------------------------
(* Bounds of the model *)

\* guest INT instructions executed since boot
MaxInstr == 3

\* INT 13h reads executed since boot
MaxReads == 2

\* INT instructions executed since boot where every service may be called
MaxInts == 2

\* bytes of the boot medium beyond sector 1 of cylinder 256: its last sector is short
ImageTail == 100

----------------------------------------------------------------------------
(* Bit arithmetic on naturals, as the JavaScript operators compute it *)

RECURSIVE BitAnd(_, _)
BitAnd(a, b) ==
  IF a = 0 \/ b = 0 THEN 0
  ELSE (IF a % 2 = 1 /\ b % 2 = 1 THEN 1 ELSE 0) + 2 * BitAnd(a \div 2, b \div 2)

RECURSIVE BitOr(_, _)
BitOr(a, b) ==
  IF a = 0 THEN b
  ELSE IF b = 0 THEN a
  ELSE (IF a % 2 = 1 \/ b % 2 = 1 THEN 1 ELSE 0) + 2 * BitOr(a \div 2, b \div 2)

Min(a, b) == IF a < b THEN a ELSE b

----------------------------------------------------------------------------
(* Register file: the byte views of a 16-bit register *)

Lo(w) == w % 256
Hi(w) == w \div 256
SetLo(w, v) == Hi(w) * 256 + (v % 256)
SetHi(w, v) == (v % 256) * 256 + Lo(w)

\* reset state of the register file; execution starts at 0000:7C00
BootIP == 31744

ResetRegs ==
  [ax |-> 0, bx |-> 0, cx |-> 0, dx |-> 0, es |-> 0, cs |-> 0,
   ip |-> BootIP, sp |-> 0, cf |-> 0, zf |-> 0, sf |-> 0, pf |-> 0, af |-> 0, of |-> 0]

ResetExt == [ax |-> 0, bx |-> 0, cx |-> 0, dx |-> 0]

\* a scheduler that steps while paused
CanStep_IgnorePause == ~halted /\ ~hostError /\ regs.ip < BootIP + 2 * MaxInstr

\* the scheduler runs a fetch-decode-execute step only while not paused or halted
CanStep == ~pause /\ ~halted /\ ~hostError /\ regs.ip < BootIP + 2 * MaxInstr

\* INT n is a two byte instruction; a device handler leaves CS untouched
AfterInt(r) == [r EXCEPT !.ip = r.ip + 2]

NoOp ==
  [op |-> "boot", keyCode |-> 0, shift |-> FALSE, focus |-> FALSE, src |-> 0, int |-> 0,
   name |-> NULL, ast |-> <<>>]

----------------------------------------------------------------------------
(* INT 15h AH=86h: wait *)

WaitCX == {0, 1}
WaitDX == {0, 999, 1000, 32768, 65535}

\* the factor 2 left out
Miliseconds_NoDouble(cx, dx) == BitOr(cx * 32768, dx)

\* (((cx << 0xf) | dx) / 1000) * 2, in thousandths of a millisecond
Miliseconds(cx, dx) == BitOr(cx * 32768, dx) * 2

\* a callback that forgets status.cf
TimerCallback_KeepCF(r) == r

\* a callback that also steps over an instruction
TimerCallback_Step(r) == [r EXCEPT !.cf = 0, !.ip = r.ip + 2]

\* a callback that flips status.cf
TimerCallback_Toggle(r) == [r EXCEPT !.cf = 1 - r.cf]

\* the setTimeout callback
TimerCallback(r) == [r EXCEPT !.cf = 0]

Int15_86(cx, dx) ==
  /\ CanStep
  /\ LET r == AfterInt([regs EXCEPT !.cx = cx, !.dx = dx, !.ax = SetHi(regs.ax, 134)])
         ms == Miliseconds(cx, dx)
     IN IF ms < 2000
        THEN /\ regs' = r
             /\ UNCHANGED <<pause, timers>>
        ELSE /\ regs' = [r EXCEPT !.cf = 1]
             /\ pause' = TRUE
             /\ timers' = Append(timers, [delay |-> ms])
  /\ lastOp' = [NoOp EXCEPT !.op = "Int15_86"]
  /\ UNCHANGED <<mem, keymap, drives, device, screen, vga, hostError, halted, program, ext, pp>>

TimerFire(i) ==
  /\ i \in 1..Len(timers)
  /\ regs' = TimerCallback(regs)
  /\ pause' = FALSE
  /\ timers' = SubSeq(timers, 1, i - 1) \o SubSeq(timers, i + 1, Len(timers))
  /\ lastOp' = [NoOp EXCEPT !.op = "TimerFire"]
  /\ UNCHANGED <<mem, keymap, drives, device, screen, vga, hostError, halted, program, ext, pp>>

\* the host calls stop(): the scheduler's halted flag is set
Stop ==
  /\ ~halted
  /\ halted' = TRUE
  /\ lastOp' = [NoOp EXCEPT !.op = "Stop"]
  /\ UNCHANGED <<regs, pause, mem, timers, keymap, drives, device, screen, vga, hostError,
                 program, ext, pp>>

----------------------------------------------------------------------------
(* INT 16h: keyboard *)

\* scan code tables of constants/x86: keyCode -> <<normal, shifted>>
SCAN_CODES_TABLE == (65 :> <<7777, 7745>>) @@ (13 :> <<7181>>)
AT2_SCAN_CODES_PRESSED == (65 :> <<28>>) @@ (13 :> <<90>>)

\* key codes of the keydown events: Shift, Alt, Enter, A, F1
KeyCodes == {16, 18, 13, 65, 112}

InitKeymap ==
  [caps |-> FALSE, ctrl |-> FALSE, alt |-> FALSE, shift |-> FALSE,
   key |-> NoKey, callback |-> NULL]

\* a clear that drops the pending callback whatever its argument
clearKeyBuffer_Always(k, clearCallback) == InitKeymap

\* a clear that leaves the held key in the buffer
clearKeyBuffer_KeepKey(k, clearCallback) ==
  [k EXCEPT !.callback = IF clearCallback THEN NULL ELSE k.callback]

clearKeyBuffer(k, clearCallback) ==
  [InitKeymap EXCEPT !.callback = IF clearCallback THEN NULL ELSE k.callback]

\* Shift (16) taken for an ordinary key
isCaseModifyKeycode_Shift(code) == code > 18 \/ code < 17

isCaseModifyKeycode(code) == code > 18 \/ code < 16

\* the value readKeyState leaves in AX
readKeyState(keymapTable, code, shift) ==
  IF code = NoKey \/ code = 0 THEN 0
  ELSE IF code \notin DOMAIN keymapTable THEN 0
  ELSE keymapTable[code][Min(Len(keymapTable[code]) - 1, IF shift THEN 1 ELSE 0) + 1]

\* the table the callback of INT 16h AH=0 / AH=10h reads
CallbackTable(cb) == IF cb = "0x10" THEN AT2_SCAN_CODES_PRESSED ELSE SCAN_CODES_TABLE

keyListener(r, cb) ==
  /\ IF keymap.key = NoKey
     THEN /\ pause' = TRUE
          /\ keymap' = [keymap EXCEPT !.callback = cb]
          /\ regs' = r
     ELSE IF isCaseModifyKeycode(keymap.key)
     THEN /\ regs' = [r EXCEPT !.ax = readKeyState(CallbackTable(cb), keymap.key, keymap.shift)]
          /\ keymap' = clearKeyBuffer(keymap, TRUE)
          /\ UNCHANGED pause
     ELSE /\ regs' = r
          /\ UNCHANGED <<pause, keymap>>

Int16_00 ==
  /\ CanStep
  /\ keyListener(AfterInt([regs EXCEPT !.ax = SetHi(regs.ax, 0)]), "0x0")
  /\ lastOp' = [NoOp EXCEPT !.op = "Int16_00"]
  /\ UNCHANGED <<mem, timers, drives, device, screen, vga, hostError, halted, program, ext, pp>>

Int16_10 ==
  /\ CanStep
  /\ keyListener(AfterInt([regs EXCEPT !.ax = SetHi(regs.ax, 16)]), "0x10")
  /\ lastOp' = [NoOp EXCEPT !.op = "Int16_10"]
  /\ UNCHANGED <<mem, timers, drives, device, screen, vga, hostError, halted, program, ext, pp>>

\* a status that is true for every held key, mapped or not
readKeyStatus_AnyKey(keymapTable, code) == code # NoKey

\* the boolean readKeyState returns: the held key has a mapping in the table
readKeyStatus(keymapTable, code) ==
  code # NoKey /\ code # 0 /\ code \in DOMAIN keymapTable

\* INT 16h AH=1: readKeyState() on the held key, ZF = +status ^ 1
Int16_01 ==
  /\ CanStep
  /\ LET r == AfterInt([regs EXCEPT !.ax = SetHi(regs.ax, 1)])
         status == readKeyStatus(SCAN_CODES_TABLE, keymap.key)
     IN regs' = [r EXCEPT !.ax = readKeyState(SCAN_CODES_TABLE, keymap.key, keymap.shift),
                          !.zf = IF status THEN 0 ELSE 1]
  /\ lastOp' = [NoOp EXCEPT !.op = "Int16_01"]
  /\ UNCHANGED <<pause, keymap, mem, timers, drives, device, screen, vga, hostError, halted, program, ext, pp>>

\* the keydown listener, with the pending keymap.callback it calls
KeyDown(keyCode, shift, focus) ==
  /\ LET k == [keymap EXCEPT !.caps = FALSE, !.alt = (keyCode = 18), !.ctrl = FALSE,
                             !.shift = shift, !.key = keyCode]
     IN IF k.callback # NULL /\ focus /\ isCaseModifyKeycode(k.key)
        THEN /\ regs' = [regs EXCEPT !.ax = readKeyState(CallbackTable(k.callback), k.key, k.shift)]
             /\ keymap' = clearKeyBuffer(k, TRUE)
             /\ pause' = FALSE
        ELSE /\ keymap' = k
             /\ UNCHANGED <<regs, pause>>
  /\ lastOp' = [NoOp EXCEPT !.op = "KeyDown", !.keyCode = keyCode, !.shift = shift, !.focus = focus]
  /\ UNCHANGED <<mem, timers, drives, device, screen, vga, hostError, halted, program, ext, pp>>

KeyUp ==
  /\ keymap' = clearKeyBuffer(keymap, FALSE)
  /\ lastOp' = [NoOp EXCEPT !.op = "KeyUp"]
  /\ UNCHANGED <<regs, pause, mem, timers, drives, device, screen, vga, hostError, halted, program, ext, pp>>


----------------------------------------------------------------------------
(* INT 13h AH=02h: read sectors from the drive *)

\* cpu.mem.byteLength: 1 MiB
MemSize == 1048576

\* the drive number in DL when the BIOS was initialised
InitDL == 0

InitDrives ==
  InitDL :> [buffer |-> NULL, track |-> 0,
             info |-> [sector |-> 512, sectors |-> 18, heads |-> 2]]

\* the boot medium: 256 cylinders, one sector of cylinder 256 and a short tail
ImageLen == (256 * 2 * 18 + 1) * 512 + ImageTail

\* byte off of the boot medium: the first three bytes of a sector number it
ImageByte(off) ==
  LET k == off \div 512
      j == off % 512
  IN IF j = 0 THEN k % 256
     ELSE IF j = 1 THEN (k \div 256) % 256
     ELSE IF j = 2 THEN (k \div 65536) % 256
     ELSE (j * 31 + k) % 256

\* cpu.getMemAddress(sreg, reg)
getMemAddress(seg, off) == (seg * 16 + off) % MemSize

\* the registers a guest loads before INT 13h AH=02h
DiskRequests ==
  { [al |-> 1, cx |-> 1,   dh |-> 0, dl |-> 0, es |-> 0,     bx |-> 32256],
    [al |-> 2, cx |-> 2,   dh |-> 1, dl |-> 0, es |-> 0,     bx |-> 32256],
    [al |-> 1, cx |-> 257, dh |-> 0, dl |-> 0, es |-> 4096,  bx |-> 32256],
    [al |-> 1, cx |-> 65,  dh |-> 0, dl |-> 0, es |-> 0,     bx |-> 32512],
    [al |-> 2, cx |-> 65,  dh |-> 0, dl |-> 0, es |-> 0,     bx |-> 32256],
    [al |-> 2, cx |-> 1,   dh |-> 0, dl |-> 0, es |-> 65504, bx |-> 0],
    [al |-> 1, cx |-> 1,   dh |-> 0, dl |-> 0, es |-> 65535, bx |-> 65535],
    [al |-> 1, cx |-> 0,   dh |-> 0, dl |-> 0, es |-> 0,     bx |-> 32256],
    [al |-> 1, cx |-> 129, dh |-> 0, dl |-> 0, es |-> 0,     bx |-> 32256],
    [al |-> 0, cx |-> 129, dh |-> 0, dl |-> 0, es |-> 0,     bx |-> 32256],
    [al |-> 1, cx |-> 1,   dh |-> 0, dl |-> 1, es |-> 0,     bx |-> 32256] }

\* the high cylinder bits shifted the wrong way
Cylinder_ShiftRight(cx) == BitOr(BitAnd(cx, 65280) \div 256, BitAnd(cx, 192) \div 4)

\* ((regs.cx & 0xff00) >> 8) | ((regs.cx & 0xc0) << 2)
Cylinder(cx) == BitOr(BitAnd(cx, 65280) \div 256, BitAnd(cx, 192) * 4)

\* src: the byte offset of the addressed sector in the drive's buffer
SrcOffset(r, drive) ==
  ((Cylinder(r.cx) * drive.info.heads + Hi(r.dx)) * drive.info.sectors
     + BitAnd(Lo(r.cx), 63) - 1) * drive.info.sector

\* a copy that starts one byte late in the source
BufferCopy_OffByOne(m, targetStart, sourceStart, sourceEnd) ==
  [a \in DOMAIN m \cup {targetStart + n : n \in 0..(sourceEnd - sourceStart - 1)} |->
     IF a >= targetStart /\ a < targetStart + (sourceEnd - sourceStart)
     THEN ImageByte(sourceStart + 1 + (a - targetStart))
     ELSE m[a]]

\* drive.buffer.copy(target, targetStart, sourceStart, sourceEnd) into guest memory
BufferCopy(m, targetStart, sourceStart, sourceEnd) ==
  [a \in DOMAIN m \cup {targetStart + n : n \in 0..(sourceEnd - sourceStart - 1)} |->
     IF a >= targetStart /\ a < targetStart + (sourceEnd - sourceStart)
     THEN ImageByte(sourceStart + (a - targetStart))
     ELSE m[a]]

\* a check of the first byte of the sector only
DestOverflow_Late(dest, offset, sectorSize) == dest + offset > MemSize

\* dest + offset + sectorSize > cpu.mem.byteLength
DestOverflow(dest, offset, sectorSize) == dest + offset + sectorSize > MemSize

\* the copy loop from sector i on: the memory it leaves, whether it set error,
\* whether Buffer.copy threw.  Buffer.copy throws a RangeError for a negative
\* sourceStart; for a sourceStart past the end of the buffer Node's Buffer
\* throws and the browser's copies nothing (strict tells which one runs).
RECURSIVE CopySectors(_, _, _, _, _, _, _)
CopySectors(i, al, m, dest, src, sectorSize, strict) ==
  IF i >= al THEN [mem |-> m, error |-> FALSE, thrown |-> FALSE]
  ELSE LET offset == i * sectorSize
       IN IF DestOverflow(dest, offset, sectorSize)
          THEN [mem |-> m, error |-> TRUE, thrown |-> FALSE]
          ELSE IF src + offset < 0 \/ (strict /\ src + offset > ImageLen)
          THEN [mem |-> m, error |-> FALSE, thrown |-> TRUE]
          ELSE LET end == Min(src + offset + sectorSize, ImageLen)
                   m2 == IF src + offset >= end THEN m
                         ELSE BufferCopy(m, dest + offset, src + offset, end)
               IN IF src + offset + sectorSize > ImageLen
                  THEN [mem |-> m2, error |-> TRUE, thrown |-> FALSE]
                  ELSE CopySectors(i + 1, al, m2, dest, src, sectorSize, strict)

\* the status the handler leaves in CF and AH
DiskStatus(r, error) ==
  IF error THEN [r EXCEPT !.cf = 1, !.ax = SetHi(r.ax, 187)]
  ELSE [r EXCEPT !.cf = 0, !.ax = SetHi(r.ax, 0)]

Int13_02(q, strict) ==
  /\ CanStep
  /\ regs.ip < BootIP + 2 * MaxReads
  /\ LET r == AfterInt([regs EXCEPT !.ax = 512 + q.al, !.cx = q.cx,
                                    !.dx = q.dh * 256 + q.dl, !.es = q.es, !.bx = q.bx])
     IN IF Lo(r.dx) \notin DOMAIN drives
        THEN \* drive is undefined: drive.info throws a TypeError
             /\ regs' = r
             /\ hostError' = TRUE
             /\ lastOp' = [NoOp EXCEPT !.op = "Int13_02"]
             /\ UNCHANGED <<mem, drives>>
        ELSE LET drive == drives[Lo(r.dx)]
                 src == SrcOffset(r, drive)
                 dest == getMemAddress(r.es, r.bx)
                 buffer == IF drive.buffer = NULL THEN device ELSE drive.buffer
                 res == CopySectors(0, Lo(r.ax), mem, dest, src, drive.info.sector, strict)
             IN /\ drives' = [drives EXCEPT ![Lo(r.dx)].buffer = buffer]
                /\ lastOp' = [NoOp EXCEPT !.op = "Int13_02", !.src = src]
                /\ IF buffer = NULL
                   THEN /\ regs' = DiskStatus(r, TRUE)
                        /\ UNCHANGED <<mem, hostError>>
                   ELSE IF res.thrown
                   THEN /\ regs' = r
                        /\ mem' = res.mem
                        /\ hostError' = TRUE
                   ELSE /\ regs' = DiskStatus(r, res.error)
                        /\ mem' = res.mem
                        /\ UNCHANGED hostError
  /\ UNCHANGED <<pause, timers, keymap, device, screen, vga, halted, program, ext, pp>>

\* the values of DL a guest passes to INT 13h AH=0: floppy 0, floppy 1, HDD 0
ResetDrives == {0, 1, 128}

\* INT 13h AH=0: reset floppy drive
Int13_00(dl) ==
  /\ CanStep
  /\ LET r == AfterInt([regs EXCEPT !.ax = SetHi(regs.ax, 0), !.dx = SetLo(regs.dx, dl)])
     IN regs' = IF dl \in DOMAIN drives
                THEN [r EXCEPT !.ax = SetHi(r.ax, 0), !.cf = 0]
                ELSE [r EXCEPT !.ax = SetHi(r.ax, 6), !.cf = 1]
  /\ lastOp' = [NoOp EXCEPT !.op = "Int13_00"]
  /\ UNCHANGED <<pause, mem, timers, keymap, drives, device, screen, vga, hostError,
                 halted, program, ext, pp>>

----------------------------------------------------------------------------
(* INT 10h: video *)

\* screen.mode === null, and an undefined entry of BIOS.VideoMode
NoMode == [code |-> -1, w |-> 0, h |-> 0, text |-> FALSE]

\* BIOS.VideoMode: code -> new VideoMode(code, w, h, preset, pages)
VideoModeTable ==
  (0 :> [code |-> 0, w |-> 40, h |-> 25, text |-> TRUE]) @@
  (1 :> [code |-> 1, w |-> 40, h |-> 25, text |-> TRUE]) @@
  (2 :> [code |-> 2, w |-> 80, h |-> 25, text |-> TRUE]) @@
  (3 :> [code |-> 3, w |-> 80, h |-> 25, text |-> TRUE]) @@
  (4 :> [code |-> 4, w |-> 320, h |-> 200, text |-> FALSE]) @@
  (17 :> [code |-> 17, w |-> 640, h |-> 480, text |-> FALSE]) @@
  (18 :> [code |-> 18, w |-> 640, h |-> 480, text |-> FALSE]) @@
  (19 :> [code |-> 19, w |-> 320, h |-> 200, text |-> FALSE])

\* the values of AL a guest passes to INT 10h AH=0
ModeCodes == {1, 3, 5, 19}

\* the characters a guest passes to INT 10h AH=0Eh: BS, LF, CR, 'X'
TeletypeChars == {8, 10, 13, 88}

\* the cursor positions (DL, DH) a guest passes to INT 10h AH=02h
CursorPositions == {<<0, 0>>, <<5, 3>>, <<39, 0>>, <<79, 24>>}

\* BIOS.VideoMode[code], undefined for a code that is not in the table
LookupMode(code) == IF code \in DOMAIN VideoModeTable THEN VideoModeTable[code] ELSE NoMode

\* setVideoMode(code) for a numeric code: the new screen and VGA state
setVideoMode(code) ==
  LET newMode == LookupMode(code)
  IN IF newMode # NoMode
     THEN /\ screen' = [screen EXCEPT !.mode = newMode]
          /\ vga' = [vga EXCEPT !.textMode = newMode.text]
     ELSE UNCHANGED <<screen, vga>>

Int10_00(al) ==
  /\ CanStep
  /\ regs' = AfterInt([regs EXCEPT !.ax = al])
  /\ setVideoMode(al)
  /\ lastOp' = [NoOp EXCEPT !.op = "Int10_00"]
  /\ UNCHANGED <<pause, mem, timers, keymap, drives, device, hostError, halted, program, ext, pp>>

Int10_02(pos) ==
  /\ CanStep
  /\ regs' = AfterInt([regs EXCEPT !.ax = SetHi(regs.ax, 2), !.dx = pos[2] * 256 + pos[1]])
  /\ vga' = [vga EXCEPT !.cursor = [x |-> pos[1], y |-> pos[2]]]
  /\ lastOp' = [NoOp EXCEPT !.op = "Int10_02"]
  /\ UNCHANGED <<pause, mem, timers, keymap, drives, device, screen, hostError, halted, program, ext, pp>>

Int10_0F ==
  /\ CanStep
  /\ LET r == AfterInt([regs EXCEPT !.ax = SetHi(regs.ax, 15)])
     IN IF screen.mode = NoMode
        THEN \* mode.code of null throws a TypeError
             /\ regs' = r
             /\ hostError' = TRUE
        ELSE /\ regs' = [r EXCEPT !.ax = SetHi(SetLo(r.ax, screen.mode.code), screen.mode.w)]
             /\ UNCHANGED hostError
  /\ lastOp' = [NoOp EXCEPT !.op = "Int10_0F"]
  /\ UNCHANGED <<pause, mem, timers, keymap, drives, device, screen, vga, halted, program, ext, pp>>

\* the values of AL a guest passes to INT 10h AH=11h
FontCodes == {18, 20, 48}

\* new VideoMode(0x12, 80, 50, VGA_TEXT_MODES_PRESET['80x50'], 0x1)
Mode80x50 == [code |-> 18, w |-> 80, h |-> 50, text |-> TRUE]

\* Number.isNaN(value): false for every value that is not the number NaN,
\* a VideoMode object included
NumberIsNaN(value) == FALSE

\* setVideoMode(mode) for a VideoMode object: Number.isNaN(mode) is false, the
\* object is taken for a key of BIOS.VideoMode ("[object Object]") and the
\* lookup is undefined
setVideoModeObject(mode) ==
  LET newMode == IF NumberIsNaN(mode) THEN mode ELSE NoMode
  IN IF newMode # NoMode
     THEN /\ screen' = [screen EXCEPT !.mode = newMode]
          /\ vga' = [vga EXCEPT !.textMode = newMode.text]
     ELSE UNCHANGED <<screen, vga>>

\* INT 10h AH=11h: load mode ROM font
Int10_11(al) ==
  /\ CanStep
  /\ regs' = AfterInt([regs EXCEPT !.ax = 17 * 256 + al])
  /\ IF al = 18 THEN setVideoModeObject(Mode80x50) ELSE UNCHANGED <<screen, vga>>
  /\ lastOp' = [NoOp EXCEPT !.op = "Int10_11"]
  /\ UNCHANGED <<pause, mem, timers, keymap, drives, device, hostError, halted, program, ext, pp>>

\* start of text page 0 and of the graphics frame buffer
TextBase == 753664
GraphicsBase == 655360

\* the address of the cell (x, y) of a text page: VideoMode.write
TextCellAddr(mode, page, x, y) ==
  TextBase + page * (mode.w * mode.h * 2) + (y * mode.w + x) * 2

\* mode.write(memIO, character, color, x, y, page)
ModeWrite(m, mode, character, color, x, y, page) ==
  LET a == TextCellAddr(mode, page, x, y)
  IN [b \in DOMAIN m \cup {a, a + 1} |->
        IF b = a THEN character % 256 ELSE IF b = a + 1 THEN color % 256 ELSE m[b]]

\* bit col of row row of the 8x8 glyph of char: VGA_8X8_FONT
FontBit(char, row, col) == (char \div 2 + row + col) % 2

\* writeGraphicsCharacter(pos, char, attr, fgColor)
writeGraphicsCharacter(m, mode, x, y, char, attr, fgColor) ==
  LET background == BitAnd(attr, 112) \div 16
      addr(row, col) == GraphicsBase + (y * 8 + row) * mode.w + x * 8 + (7 - col)
      cells == {<<row, col>> : row \in 0..7, col \in 0..7}
      written == {addr(c[1], c[2]) : c \in cells}
  IN [b \in DOMAIN m \cup written |->
        IF b \in written
        THEN LET c == CHOOSE c \in cells : addr(c[1], c[2]) = b
             IN IF FontBit(char, c[1], c[2]) = 1 THEN fgColor ELSE background
        ELSE m[b]]

\* vga.scrollTextUp(): every row of the text page moves up one row
scrollTextUp(m, mode, page) ==
  LET first == TextCellAddr(mode, page, 0, 0)
      last == TextCellAddr(mode, page, 0, mode.h)
      row == mode.w * 2
      inPage(a) == a >= first /\ a < last
      old == {a \in DOMAIN m : inPage(a)}
      new == old \cup {a - row : a \in {b \in old : b - row >= first}}
  IN [a \in (DOMAIN m \ old) \cup new |->
        IF ~inPage(a) THEN m[a]
        ELSE IF a + row \in old THEN m[a + row] ELSE 0]

\* (color && attribute) || 0b111
DefaultColor(color, attribute) ==
  IF color /\ attribute # 0 THEN attribute ELSE 7

\* a wrap that forgets to move to the next row
WrapCursor_SameRow(x, y, w, textMode) ==
  IF x >= w THEN (IF textMode THEN [x |-> 0, y |-> y] ELSE [x |-> x - 1, y |-> y])
  ELSE [x |-> x, y |-> y]

\* the cursor after cursor.x++ has taken it to x
WrapCursor(x, y, w, textMode) ==
  IF x >= w THEN (IF textMode THEN [x |-> 0, y |-> y + 1] ELSE [x |-> x - 1, y |-> y])
  ELSE [x |-> x, y |-> y]

\* INT 10h AH=0Eh: writeCharacter(regs.al, attribute, color, true)
Int10_0E(al) ==
  /\ CanStep
  /\ LET r == AfterInt([regs EXCEPT !.ax = 14 * 256 + al])
         mode == screen.mode
         x == vga.cursor.x
         y == vga.cursor.y
         attribute == IF vga.textMode THEN 0 ELSE Lo(r.bx)
         color == DefaultColor(~vga.textMode, attribute)
     IN /\ regs' = r
        /\ IF al = 8
           THEN /\ vga' = [vga EXCEPT !.cursor.x = x - 1]
                /\ UNCHANGED <<mem, hostError>>
           ELSE IF mode = NoMode
           THEN \* mode.h, mode.w, mode.write of null throw a TypeError
                /\ hostError' = TRUE
                /\ UNCHANGED <<mem, vga>>
           ELSE IF al \in {10, 13}
           THEN LET y1 == IF al = 10 THEN y + 1 ELSE y
                    x1 == IF al = 10 THEN x ELSE 0
                IN /\ IF y1 >= mode.h
                      THEN /\ mem' = scrollTextUp(mem, mode, 0)
                           /\ vga' = [vga EXCEPT !.cursor = [x |-> x1, y |-> mode.h - 1]]
                      ELSE /\ vga' = [vga EXCEPT !.cursor = [x |-> x1, y |-> y1]]
                           /\ UNCHANGED mem
                   /\ UNCHANGED hostError
           ELSE /\ mem' = IF vga.textMode
                          THEN ModeWrite(mem, mode, al, color, x, y, screen.page)
                          ELSE writeGraphicsCharacter(mem, mode, x, y, al, attribute, color)
                /\ vga' = [vga EXCEPT !.cursor = WrapCursor(x + 1, y, mode.w, vga.textMode)]
                /\ UNCHANGED hostError
  /\ lastOp' = [NoOp EXCEPT !.op = "Int10_0E"]
  /\ UNCHANGED <<pause, timers, keymap, drives, device, screen, halted, program, ext, pp>>

\* writeCharacter(character, attribute, color, moveCursor, cursor) without its
\* last step (setCursorLocation when moveCursor): the memory and the cursor
\* object it leaves, and whether it threw.  attribute is the value the code
\* uses for it (regs.bl when the argument is undefined).
writeCharacter(m, cursor, character, attribute, color) ==
  LET mode == screen.mode
      x == cursor.x
      y == cursor.y
  IN IF character = 8
     THEN [mem |-> m, cursor |-> [x |-> x - 1, y |-> y], thrown |-> FALSE]
     ELSE IF mode = NoMode
     THEN \* mode.h, mode.w, mode.write of null throw a TypeError
          [mem |-> m,
           cursor |-> IF character = 10 THEN [x |-> x, y |-> y + 1]
                      ELSE IF character = 13 THEN [x |-> 0, y |-> y] ELSE cursor,
           thrown |-> TRUE]
     ELSE IF character \in {10, 13}
     THEN LET y1 == IF character = 10 THEN y + 1 ELSE y
              x1 == IF character = 10 THEN x ELSE 0
          IN IF y1 >= mode.h
             THEN [mem |-> scrollTextUp(m, mode, 0),
                   cursor |-> [x |-> x1, y |-> mode.h - 1], thrown |-> FALSE]
             ELSE [mem |-> m, cursor |-> [x |-> x1, y |-> y1], thrown |-> FALSE]
     ELSE [mem |-> IF vga.textMode
                   THEN ModeWrite(m, mode, character, DefaultColor(color, attribute),
                                  x, y, screen.page)
                   ELSE writeGraphicsCharacter(m, mode, x, y, character, 0,
                                               DefaultColor(color, attribute)),
           cursor |-> WrapCursor(x + 1, y, mode.w, vga.textMode),
           thrown |-> FALSE]

\* the loop of writeCharacters from iteration i on: every iteration works on
\* the same cachedCursor object
RECURSIVE writeCharacters(_, _, _, _, _, _, _)
writeCharacters(i, cx, m, cachedCursor, al, attribute, color) ==
  IF i >= cx THEN [mem |-> m, cursor |-> cachedCursor, thrown |-> FALSE]
  ELSE LET w == writeCharacter(m, cachedCursor, al, attribute, color)
       IN IF w.thrown THEN w
          ELSE writeCharacters(i + 1, cx, w.mem, w.cursor, al, attribute, color)

\* the registers AL, CX, BL a guest loads before INT 10h AH=09h / AH=0Ah
WriteRequests ==
  { [al |-> 88, cx |-> 0, bl |-> 0],
    [al |-> 88, cx |-> 1, bl |-> 30],
    [al |-> 88, cx |-> 3, bl |-> 0],
    [al |-> 10, cx |-> 1, bl |-> 0] }

\* INT 10h AH=09h: writeCharacters(); AH=0Ah: writeCharacters(null, false).
\* cachedCursor is a Vec2D of its own (vga.getTextCursorLocation() hands out a
\* copy: writeCharacter needs setCursorLocation to move the VGA cursor), and
\* moveCursor is false
Int10_09(q) ==
  /\ CanStep
  /\ LET r == AfterInt([regs EXCEPT !.ax = 9 * 256 + q.al, !.cx = q.cx,
                                    !.bx = SetLo(regs.bx, q.bl)])
         res == writeCharacters(0, q.cx, mem, vga.cursor, q.al, q.bl, TRUE)
     IN /\ regs' = r
        /\ mem' = res.mem
        /\ hostError' = res.thrown
  /\ lastOp' = [NoOp EXCEPT !.op = "Int10_09"]
  /\ UNCHANGED <<pause, timers, keymap, drives, device, screen, vga, halted, program, ext, pp>>

Int10_0A(q) ==
  /\ CanStep
  /\ LET r == AfterInt([regs EXCEPT !.ax = 10 * 256 + q.al, !.cx = q.cx,
                                    !.bx = SetLo(regs.bx, q.bl)])
         res == writeCharacters(0, q.cx, mem, vga.cursor, q.al, 0, FALSE)
     IN /\ regs' = r
        /\ mem' = res.mem
        /\ hostError' = res.thrown
  /\ lastOp' = [NoOp EXCEPT !.op = "Int10_0A"]
  /\ UNCHANGED <<pause, timers, keymap, drives, device, screen, vga, halted, program, ext, pp>>

----------------------------------------------------------------------------
(* The interpreter: register views, ALU and the instructions of the opcode tests *)

RECURSIVE BitXor(_, _)
BitXor(a, b) ==
  IF a = 0 THEN b
  ELSE IF b = 0 THEN a
  ELSE (IF a % 2 # b % 2 THEN 1 ELSE 0) + 2 * BitXor(a \div 2, b \div 2)

\* the parent register, the width and the byte of every register view
RegView ==
  [al  |-> [parent |-> "ax", width |-> 8,  high |-> FALSE],
   ah  |-> [parent |-> "ax", width |-> 8,  high |-> TRUE],
   bl  |-> [parent |-> "bx", width |-> 8,  high |-> FALSE],
   cl  |-> [parent |-> "cx", width |-> 8,  high |-> FALSE],
   dl  |-> [parent |-> "dx", width |-> 8,  high |-> FALSE],
   dh  |-> [parent |-> "dx", width |-> 8,  high |-> TRUE],
   ax  |-> [parent |-> "ax", width |-> 16, high |-> FALSE],
   bx  |-> [parent |-> "bx", width |-> 16, high |-> FALSE],
   cx  |-> [parent |-> "cx", width |-> 16, high |-> FALSE],
   dx  |-> [parent |-> "dx", width |-> 16, high |-> FALSE],
   eax |-> [parent |-> "ax", width |-> 32, high |-> FALSE],
   ecx |-> [parent |-> "cx", width |-> 32, high |-> FALSE],
   edx |-> [parent |-> "dx", width |-> 32, high |-> FALSE]]

\* registers[name]: the value of an 8 or 16 bit view, the low half of a 32 bit one
ReadReg(r, e, name) ==
  LET v == RegView[name]
  IN IF v.width = 8 THEN (IF v.high THEN Hi(r[v.parent]) ELSE Lo(r[v.parent]))
     ELSE r[v.parent]

\* the upper half of a 32 bit view, 0 for the narrower views
ReadUpper(r, e, name) ==
  IF RegView[name].width = 32 THEN e[RegView[name].parent] ELSE 0

\* registers[name] = value, upper being the upper half of a 32 bit value: the
\* register file and the upper halves it leaves
WriteReg(r, e, name, value, upper) ==
  LET v == RegView[name]
  IN IF v.width = 8
     THEN [regs |-> [r EXCEPT ![v.parent] = IF v.high THEN SetHi(r[v.parent], value)
                                            ELSE SetLo(r[v.parent], value)],
           ext |-> e]
     ELSE IF v.width = 16
     THEN [regs |-> [r EXCEPT ![v.parent] = value % 65536], ext |-> e]
     ELSE [regs |-> [r EXCEPT ![v.parent] = value % 65536],
           ext |-> [e EXCEPT ![v.parent] = upper % 65536]]

\* bit i of v
Bit(v, i) == (v \div (2 ^ i)) % 2

\* PF: 1 when the low byte of the result has an even number of bits set
Parity(v) ==
  IF (Bit(v, 0) + Bit(v, 1) + Bit(v, 2) + Bit(v, 3)
        + Bit(v, 4) + Bit(v, 5) + Bit(v, 6) + Bit(v, 7)) % 2 = 0 THEN 1 ELSE 0

\* an OR that adds its operands
Logic_OrAdds(op, a, b) ==
  IF op = "and" THEN BitAnd(a, b) ELSE IF op = "or" THEN a + b ELSE BitXor(a, b)

\* AND, OR, XOR of two operands
Logic(op, a, b) ==
  IF op = "and" THEN BitAnd(a, b) ELSE IF op = "or" THEN BitOr(a, b) ELSE BitXor(a, b)

\* an ALU whose ADD and SUB never report a carry or borrow
Alu_NoCarry(op, w, a, b, r) ==
  LET res == (IF op = "add" THEN a + b ELSE IF op = "sub" THEN a - b ELSE Logic(op, a, b)) % (2 ^ w)
  IN [value |-> res,
      regs |-> [r EXCEPT !.cf = 0, !.zf = IF res = 0 THEN 1 ELSE 0,
                         !.sf = Bit(res, w - 1), !.pf = Parity(res)]]

\* an ALU whose ADD and SUB keep a carry that is already set
Alu_StickyCarry(op, w, a, b, r) ==
  LET res == (IF op = "add" THEN a + b ELSE IF op = "sub" THEN a - b ELSE Logic(op, a, b)) % (2 ^ w)
      carry == IF op = "add" THEN a + b >= 2 ^ w ELSE IF op = "sub" THEN a < b ELSE FALSE
  IN [value |-> res,
      regs |-> [r EXCEPT !.cf = IF carry \/ (op \in {"add", "sub"} /\ r.cf = 1) THEN 1 ELSE 0,
                         !.zf = IF res = 0 THEN 1 ELSE 0,
                         !.sf = Bit(res, w - 1), !.pf = Parity(res)]]

\* the ALU: the result of op on two operands of width w (8 or 16) and the flags it leaves
Alu(op, w, a, b, r) ==
  LET m == 2 ^ w
      sign(v) == Bit(v, w - 1)
  IN IF op \in {"add", "sub"}
     THEN LET wide == IF op = "add" THEN a + b ELSE a - b
              res == wide % m
              cf == IF op = "add" THEN wide >= m ELSE a < b
              of == IF op = "add"
                    THEN sign(a) = sign(b) /\ sign(res) # sign(a)
                    ELSE sign(a) # sign(b) /\ sign(res) # sign(a)
              af == IF op = "add" THEN (a % 16) + (b % 16) >= 16 ELSE (a % 16) < (b % 16)
          IN [value |-> res,
              regs |-> [r EXCEPT !.cf = IF cf THEN 1 ELSE 0, !.of = IF of THEN 1 ELSE 0,
                                 !.af = IF af THEN 1 ELSE 0, !.zf = IF res = 0 THEN 1 ELSE 0,
                                 !.sf = sign(res), !.pf = Parity(res)]]
     ELSE LET res == Logic(op, a, b) % m
          IN [value |-> res,
              regs |-> [r EXCEPT !.cf = 0, !.of = 0, !.zf = IF res = 0 THEN 1 ELSE 0,
                                 !.sf = sign(res), !.pf = Parity(res)]]

\* AND, OR, XOR on 32 bit operands given as halves: the halves of the result
\* and the flags it leaves
Alu32(op, aLo, aHi, bLo, bHi, r) ==
  LET lo == Logic(op, aLo, bLo) % 65536
      hi == Logic(op, aHi, bHi) % 65536
  IN [value |-> lo, upper |-> hi,
      regs |-> [r EXCEPT !.cf = 0, !.of = 0, !.zf = IF lo = 0 /\ hi = 0 THEN 1 ELSE 0,
                         !.sf = Bit(hi, 15), !.pf = Parity(lo)]]

\* instructions: op dst, src (a register) / op dst, imm / hlt, with the
\* number of bytes of their encoding
RR(op, dst, src, len) == [op |-> op, dst |-> dst, src |-> src, imm |-> 0, len |-> len]
RI(op, dst, imm, len) == [op |-> op, dst |-> dst, src |-> "imm", imm |-> imm, len |-> len]
Hlt == [op |-> "hlt", dst |-> "al", src |-> "imm", imm |-> 0, len |-> 1]

\* the test 'mov imm and registers', add al, i and sub al, j in place of
\* add al, 0x3 and sub al, 0x1
MovImmTest(i, j) ==
  << RR("xor", "ax", "ax", 2), RI("mov", "al", 0, 2), RI("add", "al", i, 2),
     RI("sub", "al", j, 2), RR("xor", "bx", "bx", 2), RR("mov", "bl", "al", 2),
     RI("add", "bx", 3, 3), RR("mov", "dx", "bx", 2), RI("add", "dl", 255, 3),
     RI("add", "dl", 1, 3), Hlt >>

\* the test 'alu opcodes', the immediate k in place of 0x1
AluTest(k) ==
  << RR("xor", "al", "cl", 2), RR("and", "al", "al", 2), RR("or", "al", "cl", 2),
     RR("xor", "ax", "cx", 2), RR("and", "cx", "dx", 2), RR("or", "cx", "dx", 2),
     RR("xor", "eax", "ecx", 3), RR("and", "ecx", "edx", 3), RR("or", "ecx", "edx", 3),
     RI("xor", "ax", k, 3), RI("and", "ax", k, 3), RI("or", "ax", k, 3),
     RI("xor", "cx", k, 3), RI("and", "cx", k, 3), RI("or", "cx", k, 3), Hlt >>

\* the immediates of the programs the model boots
AddImms == {3, 200}
SubImms == {1, 4}
LogicImms == {1, 6}

Programs ==
  {MovImmTest(i, j) : i \in AddImms, j \in SubImms} \cup {AluTest(k) : k \in LogicImms}

\* the offset of instruction i from the load address
RECURSIVE Offset(_, _)
Offset(code, i) == IF i <= 1 THEN 0 ELSE Offset(code, i - 1) + code[i - 1].len

\* the index of the instruction at CS:IP, 0 when IP is outside the program
Fetch(code, ip) ==
  IF \E i \in 1..Len(code) : BootIP + Offset(code, i) = ip
  THEN CHOOSE i \in 1..Len(code) : BootIP + Offset(code, i) = ip
  ELSE 0

\* the second operand of an instruction, and its upper half
Operand(r, e, ins) == IF ins.src = "imm" THEN ins.imm ELSE ReadReg(r, e, ins.src)
OperandUpper(r, e, ins) == IF ins.src = "imm" THEN 0 ELSE ReadUpper(r, e, ins.src)

\* one fetch-decode-execute step: IP moves past the instruction, then it runs
Step ==
  /\ ~pause /\ ~halted /\ ~hostError
  /\ Fetch(program, regs.ip) # 0
  /\ LET ins == program[Fetch(program, regs.ip)]
         r == [regs EXCEPT !.ip = regs.ip + ins.len]
         w == RegView[ins.dst].width
     IN IF ins.op = "hlt"
        THEN /\ halted' = TRUE
             /\ regs' = r
             /\ UNCHANGED ext
        ELSE IF ins.op = "mov"
        THEN LET wr == WriteReg(r, ext, ins.dst, Operand(r, ext, ins), OperandUpper(r, ext, ins))
             IN /\ regs' = wr.regs
                /\ ext' = wr.ext
                /\ UNCHANGED halted
        ELSE IF w = 32
        THEN LET res == Alu32(ins.op, ReadReg(r, ext, ins.dst), ReadUpper(r, ext, ins.dst),
                              Operand(r, ext, ins), OperandUpper(r, ext, ins), r)
                 wr == WriteReg(res.regs, ext, ins.dst, res.value, res.upper)
             IN /\ regs' = wr.regs
                /\ ext' = wr.ext
                /\ UNCHANGED halted
        ELSE LET res == Alu(ins.op, w, ReadReg(r, ext, ins.dst), Operand(r, ext, ins), r)
                 wr == WriteReg(res.regs, ext, ins.dst, res.value, 0)
             IN /\ regs' = wr.regs
                /\ ext' = wr.ext
                /\ UNCHANGED halted
  /\ lastOp' = [NoOp EXCEPT !.op = "Step"]
  /\ UNCHANGED <<pause, mem, timers, keymap, drives, device, screen, vga, hostError, program, pp>>

----------------------------------------------------------------------------
(* INT n: the device bus is consulted first, the IVT second *)

\* the services registered with attachInterrupts(int, 'ah', {...}), without
\* INT 16h AH=10h
Handlers_NoExtendedRead ==
  { <<21, 134>>,
    <<22, 0>>, <<22, 2>>, <<22, 1>>,
    <<19, 0>>, <<19, 2>>,
    <<16, 0>>, <<16, 1>>, <<16, 2>>, <<16, 3>>, <<16, 5>>, <<16, 6>>, <<16, 8>>,
    <<16, 9>>, <<16, 10>>, <<16, 14>>, <<16, 16>>, <<16, 17>>, <<16, 19>>, <<16, 15>> }

\* the services registered with attachInterrupts(int, 'ah', {...}): <<int, AH>>
Handlers ==
  { <<21, 134>>,
    <<22, 0>>, <<22, 2>>, <<22, 1>>, <<22, 16>>,
    <<19, 0>>, <<19, 2>>,
    <<16, 0>>, <<16, 1>>, <<16, 2>>, <<16, 3>>, <<16, 5>>, <<16, 6>>, <<16, 8>>,
    <<16, 9>>, <<16, 10>>, <<16, 14>>, <<16, 16>>, <<16, 17>>, <<16, 19>>, <<16, 15>> }

\* <<int, AH>> of the INTs a guest executes for which no service is registered
Unregistered == { <<16, 79>>, <<22, 134>>, <<33, 9>> }

\* guest memory holding vectors for INT 10h (F000:8000) and INT 21h (0000:9000)
IvtRam ==
  (64 :> 0) @@ (65 :> 128) @@ (66 :> 0) @@ (67 :> 240) @@
  (132 :> 0) @@ (133 :> 144) @@ (134 :> 0) @@ (135 :> 0)

MemByte(m, a) == IF a \in DOMAIN m THEN m[a] ELSE 0
MemWord(m, a) == MemByte(m, a) + 256 * MemByte(m, a + 1)

\* write16 of value at linear address a
WriteWord(m, a, value) ==
  [b \in DOMAIN m \cup {a, a + 1} |->
     IF b = a THEN value % 256 ELSE IF b = a + 1 THEN (value \div 256) % 256 ELSE m[b]]

\* FLAGS as a 16-bit value: CF(0), PF(2), AF(4), ZF(6), SF(7), OF(11)
FlagsWord(r) == r.cf + 4 * r.pf + 16 * r.af + 64 * r.zf + 128 * r.sf + 2048 * r.of

\* INT n with no service registered for (n, AH): FLAGS, CS, IP are pushed at
\* SS:SP (SS = 0) and CS:IP is loaded from IVT entry n; an entry of zero makes
\* the INT a no-op that returns with CF=1
IntIVT(n, ah) ==
  /\ CanStep
  /\ LET r == AfterInt([regs EXCEPT !.ax = SetHi(regs.ax, ah)])
         off == MemWord(mem, 4 * n)
         seg == MemWord(mem, 4 * n + 2)
         sp1 == (r.sp - 2) % 65536
         sp2 == (r.sp - 4) % 65536
         sp3 == (r.sp - 6) % 65536
     IN IF off = 0 /\ seg = 0
        THEN /\ regs' = [r EXCEPT !.cf = 1]
             /\ UNCHANGED mem
        ELSE /\ regs' = [r EXCEPT !.cs = seg, !.ip = off, !.sp = sp3]
             /\ mem' = WriteWord(WriteWord(WriteWord(mem, sp1, FlagsWord(r)), sp2, r.cs), sp3, r.ip)
  /\ lastOp' = [NoOp EXCEPT !.op = "IntIVT", !.int = n]
  /\ UNCHANGED <<pause, timers, keymap, drives, device, screen, vga, hostError,
                 halted, program, ext, pp>>

\* INT n with AH = ah: the registered service when there is one, the IVT otherwise
Dispatch(n, ah, service) ==
  /\ regs.ip < BootIP + 2 * MaxInts
  /\ IF <<n, ah>> \in Handlers THEN service ELSE IntIVT(n, ah)

----------------------------------------------------------------------------
(* PreprocessorInterpreter: the macro table and the evaluation of a token list *)

\* the names and the expansion texts of the macros a source defines
MacroNames == {"A", "B"}
MacroTexts == {"x", "B"}

\* _callable = new Map(): no name has a callable
NoCallables == [name \in MacroNames |-> NULL]

InitInterpreter ==
  [callable |-> NoCallables, tokens |-> <<>>, foundMacro |-> FALSE, error |-> NULL]

Keyword(text) == [type |-> "KEYWORD", text |-> text]
Quote(text) == [type |-> "QUOTE", text |-> text]
Bracket(text) == [type |-> "BRACKET", text |-> text]

\* the token lists handed to evalTokensList
TokenLists ==
  { <<>>,
    <<Keyword("A")>>,
    <<Keyword("B")>>,
    <<Keyword("x"), Keyword("A")>>,
    <<Keyword("A"), Keyword("B")>>,
    <<Quote("A"), Keyword("x")>>,
    <<Keyword("A"), Bracket("("), Keyword("B"), Bracket(")"), Keyword("x")>>,
    <<Keyword("B"), Bracket("("), Bracket(")")>> }

\* isCallable(name)
isCallable(callable, name) == name \in MacroNames /\ callable[name] # NULL

\* runtimeCall(name, args): the expansion text of a macro whose body does not
\* mention its parameters
runtimeCall(callable, name) == callable[name]

\* it.getTokenIndex() + args.length after fetchRuntimeCallArgsList: the index
\* (from 1) of the token after the ')' that closes the call made at index i
AfterCall(tokens, i) ==
  IF i + 1 <= Len(tokens) /\ tokens[i + 1].text = "("
  THEN IF \E j \in (i + 2)..Len(tokens) : tokens[j].text = ")"
       THEN 1 + CHOOSE j \in (i + 2)..Len(tokens) :
                  /\ tokens[j].text = ")"
                  /\ \A k \in (i + 2)..(j - 1) : tokens[k].text # ")"
       ELSE Len(tokens) + 1
  ELSE i + 1

\* the loop of evalTokensList from index i (from 1) on: a call found at i is
\* replaced by one KEYWORD token holding the expansion text, and the loop goes
\* on at i + 1
RECURSIVE evalTokensList(_, _, _, _)
evalTokensList(callable, newTokens, i, foundMacro) ==
  IF i > Len(newTokens) THEN [foundMacro |-> foundMacro, tokens |-> newTokens]
  ELSE IF newTokens[i].type # "KEYWORD" \/ ~isCallable(callable, newTokens[i].text)
  THEN evalTokensList(callable, newTokens, i + 1, foundMacro)
  ELSE LET callResult == runtimeCall(callable, newTokens[i].text)
           replaced == SubSeq(newTokens, 1, i - 1) \o <<Keyword(callResult)>>
                         \o SubSeq(newTokens, AfterCall(newTokens, i), Len(newTokens))
       IN evalTokensList(callable, replaced, i + 1, TRUE)

\* defineRuntimeCallable without its test of isCallable
DefineRuntimeCallable_Overwrite(name, text) ==
  /\ pp' = [pp EXCEPT !.callable[name] = text, !.error = NULL]
  /\ lastOp' = [NoOp EXCEPT !.op = "defineRuntimeCallable", !.name = name]
  /\ UNCHANGED <<regs, pause, mem, timers, keymap, drives, device, screen, vga, hostError,
                 halted, program, ext>>

\* defineRuntimeCallable(callable): a name that is callable already raises a
\* GrammarError
DefineRuntimeCallable(name, text) ==
  /\ pp' = IF isCallable(pp.callable, name)
           THEN [pp EXCEPT !.error = "MACRO_ALREADY_EXISTS"]
           ELSE [pp EXCEPT !.callable[name] = text, !.error = NULL]
  /\ lastOp' = [NoOp EXCEPT !.op = "defineRuntimeCallable", !.name = name]
  /\ UNCHANGED <<regs, pause, mem, timers, keymap, drives, device, screen, vga, hostError,
                 halted, program, ext>>

\* evalTokensList(tokens): its result [foundMacro, newTokens]
EvalTokensList(tokens) ==
  /\ LET res == evalTokensList(pp.callable, tokens, 1, FALSE)
     IN pp' = [pp EXCEPT !.tokens = res.tokens, !.foundMacro = res.foundMacro, !.error = NULL]
  /\ lastOp' = [NoOp EXCEPT !.op = "evalTokensList"]
  /\ UNCHANGED <<regs, pause, mem, timers, keymap, drives, device, screen, vga, hostError,
                 halted, program, ext>>

\* clear()
Clear ==
  /\ pp' = [pp EXCEPT !.callable = NoCallables, !.error = NULL]
  /\ lastOp' = [NoOp EXCEPT !.op = "clear"]
  /\ UNCHANGED <<regs, pause, mem, timers, keymap, drives, device, screen, vga, hostError,
                 halted, program, ext>>

\* a macro definition of a preprocessor AST
Macro(name, text) == [name |-> name, text |-> text]

\* the macro definitions, in source order, of the ASTs given to exec
Asts ==
  { <<>>,
    <<Macro("A", "x")>>,
    <<Macro("B", "x"), Macro("A", "B")>>,
    <<Macro("A", "x"), Macro("A", "B")>> }

\* ast.exec(interpreter) from definition i on: the AST hands each of its
\* macro definitions to defineRuntimeCallable, whose GrammarError ends the run
RECURSIVE execAst(_, _, _)
execAst(callable, ast, i) ==
  IF i > Len(ast) THEN [callable |-> callable, error |-> NULL]
  ELSE IF isCallable(callable, ast[i].name)
  THEN [callable |-> callable, error |-> "MACRO_ALREADY_EXISTS"]
  ELSE execAst([callable EXCEPT ![ast[i].name] = ast[i].text], ast, i + 1)

\* exec(ast): clear(), then ast.exec(this); the text it returns is built from
\* the AST alone
Exec(ast) ==
  /\ LET res == execAst(NoCallables, ast, 1)
     IN pp' = [pp EXCEPT !.callable = res.callable, !.error = res.error]
  /\ lastOp' = [NoOp EXCEPT !.op = "exec", !.ast = ast]
  /\ UNCHANGED <<regs, pause, mem, timers, keymap, drives, device, screen, vga, hostError,
                 halted, program, ext>>

----------------------------------------------------------------------------

\* the state after new CPU, attach(BIOS) and boot(image), ram being the bytes
\* of guest memory that are not zero
Boot(image, ram) ==
  /\ regs = ResetRegs
  /\ pause = FALSE
  /\ mem = ram
  /\ timers = <<>>
  /\ keymap = InitKeymap
  /\ drives = InitDrives
  /\ device \in {NULL, "image"}
  /\ screen = [page |-> 0, mode |-> NoMode]
  /\ vga = [cursor |-> [x |-> 0, y |-> 0], textMode |-> TRUE]
  /\ hostError = FALSE
  /\ lastOp = NoOp
  /\ halted = FALSE
  /\ program = image
  /\ ext = ResetExt
  /\ pp = InitInterpreter

\* a boot with no program of the model's instruction set: the guest's INTs are
\* the actions' inputs
Init == Boot(<<>>, <<>>)

NextBios ==
  \/ \E cx \in WaitCX, dx \in WaitDX : Int15_86(cx, dx)
  \/ \E i \in 1..Len(timers) : TimerFire(i)
  \/ Int16_00
  \/ Int16_10
  \/ Int16_01
  \/ \E keyCode \in KeyCodes, shift \in BOOLEAN, focus \in BOOLEAN : KeyDown(keyCode, shift, focus)
  \/ KeyUp

NextDisk ==
  \/ \E q \in DiskRequests, strict \in BOOLEAN : Int13_02(q, strict)
  \/ \E dl \in ResetDrives : Int13_00(dl)

SpecDisk == Init /\ [][NextDisk]_vars

NextVideo ==
  \/ \E al \in ModeCodes : Int10_00(al)
  \/ \E pos \in CursorPositions : Int10_02(pos)
  \/ \E al \in TeletypeChars : Int10_0E(al)
  \/ Int10_0F
  \/ \E al \in FontCodes : Int10_11(al)
  \/ \E q \in WriteRequests : Int10_09(q)
  \/ \E q \in WriteRequests : Int10_0A(q)

SpecVideo == Init /\ [][NextVideo]_vars

\* the wait service and the host that may stop the machine
NextTimer ==
  \/ \E cx \in WaitCX, dx \in WaitDX : Int15_86(cx, dx)
  \/ \E i \in 1..Len(timers) : TimerFire(i)
  \/ Stop

SpecTimer == Init /\ [][NextTimer]_vars

\* boot(compile(code)) of the opcode tests, run to HLT
InitCpu == \E image \in Programs : Boot(image, <<>>)

NextCpu == Step

SpecCpu == InitCpu /\ [][NextCpu]_vars

\* a boot with an empty IVT or with the vectors of IvtRam installed
InitInt == \E ram \in {<<>>, IvtRam} : Boot(<<>>, ram)

NextInt ==
  \/ \E cx \in WaitCX, dx \in WaitDX : Dispatch(21, 134, Int15_86(cx, dx))
  \/ Dispatch(22, 0, Int16_00)
  \/ Dispatch(22, 1, Int16_01)
  \/ Dispatch(22, 16, Int16_10)
  \/ \E q \in DiskRequests, strict \in BOOLEAN : Dispatch(19, 2, Int13_02(q, strict))
  \/ \E al \in ModeCodes : Dispatch(16, 0, Int10_00(al))
  \/ \E pos \in CursorPositions : Dispatch(16, 2, Int10_02(pos))
  \/ \E al \in TeletypeChars : Dispatch(16, 14, Int10_0E(al))
  \/ Dispatch(16, 15, Int10_0F)
  \/ \E al \in FontCodes : Dispatch(16, 17, Int10_11(al))
  \/ \E req \in Unregistered : Dispatch(req[1], req[2], FALSE)

SpecInt == InitInt /\ [][NextInt]_vars

NextPreprocessor ==
  \/ \E name \in MacroNames, text \in MacroTexts : DefineRuntimeCallable(name, text)
  \/ \E tokens \in TokenLists : EvalTokensList(tokens)
  \/ Clear
  \/ \E ast \in Asts : Exec(ast)

SpecPreprocessor == Init /\ [][NextPreprocessor]_vars

SpecBios == Init /\ [][NextBios]_vars

\* the host event loop runs the callback of every timer it was given
FairSpecBios == SpecBios /\ WF_vars(\E i \in 1..Len(timers) : TimerFire(i))

----------------------------------------------------------------------------
(* Properties of the keyboard and wait services *)

KbdWait == keymap.callback # NULL

\* the step is a keydown of a non-modifier key with focus on the document body
Delivering == lastOp'.op = "KeyDown" /\ lastOp'.focus /\ ~(lastOp'.keyCode \in 16..18)

\* the scan/ASCII code of a key in the table the pending read uses
KeyCodeOf(cb, keyCode, shift) ==
  LET t == IF cb = "0x10" THEN AT2_SCAN_CODES_PRESSED[keyCode] ELSE SCAN_CODES_TABLE[keyCode]
  IN IF shift /\ Len(t) > 1 THEN t[2] ELSE t[1]

\* C1: a blocking read (INT 16h AH=0 / AH=10h) made while no key is held sets
\* paused; paused then stays set, and the read stays pending, across keyups,
\* modifier keydowns (16..18) and keydowns without focus on the body; the first
\* non-modifier keydown with focus loads AX with the key's code and clears paused.
C1_BlockingRead ==
  [][ /\ (lastOp'.op \in {"Int16_00", "Int16_10"} /\ keymap.key = NoKey
            => pause' /\ KbdWait')
      /\ (KbdWait /\ ~Delivering => pause' /\ keymap'.callback = keymap.callback
                                        /\ regs' = regs)
      /\ (KbdWait /\ Delivering
            => /\ ~pause'
               /\ ~KbdWait'
               /\ lastOp'.keyCode \in DOMAIN SCAN_CODES_TABLE
                    => regs'.ax = KeyCodeOf(keymap.callback, lastOp'.keyCode, lastOp'.shift))
    ]_vars

\* a pending read has just been served by a keydown: shifted A is in AX
C1_Witness ==
  /\ lastOp.op = "KeyDown" /\ lastOp.keyCode = 65 /\ lastOp.shift /\ lastOp.focus
  /\ keymap.key = NoKey /\ ~pause /\ regs.ax = 7745

\* C2 as stated: INT 15h AH=86h returns with CF=1, paused and one timer for every CX, DX
C2_Original ==
  lastOp.op = "Int15_86" => regs.cf = 1 /\ pause /\ Len(timers) = 1

\* C2 amended: INT 15h AH=86h returns with CF=1, paused and exactly one timer
\* scheduled whenever the wait it computes is at least 2 ms, that is whenever
\* (CX << 15) | DX >= 1000; for a shorter wait it returns at once, not paused
\* and with no timer scheduled.
C2_WaitPauses ==
  lastOp.op = "Int15_86" =>
    IF BitOr(regs.cx * 32768, regs.dx) >= 1000
    THEN regs.cf = 1 /\ pause /\ Len(timers) = 1
    ELSE ~pause /\ timers = <<>>

C2_Witness ==
  lastOp.op = "Int15_86" /\ regs.cx = 0 /\ regs.dx = 1000 /\ pause /\ Len(timers) = 1

\* C3: once INT 15h AH=86h has paused the CPU its timer eventually fires and
\* the callback clears paused and CF; until then paused stays set and no
\* instruction is executed.
C3_TimerResumes ==
  /\ [](timers # <<>> => pause)
  /\ [][timers # <<>> /\ lastOp'.op # "TimerFire"
          => pause' /\ timers' = timers /\ regs'.ip = regs.ip /\ regs'.cf = 1]_vars
  /\ (timers # <<>>) ~> (lastOp.op = "TimerFire" /\ timers = <<>> /\ ~pause /\ regs.cf = 0)

C3_Witness ==
  lastOp.op = "TimerFire" /\ ~pause /\ regs.cf = 0 /\ regs.cx = 1 /\ regs.ip = BootIP + 2

\* C7: the delay handed to the host timer is ((CX << 16) | DX) microseconds
C7_DelayIsCXDX ==
  lastOp.op = "Int15_86" /\ timers # <<>>
    => timers[Len(timers)].delay = regs.cx * 65536 + regs.dx

\* C8: the timer callback and the keydown callback leave IP, CS, SP, memory and
\* every register other than AX, and every flag other than CF, as they were.
C8_CallbackFrame ==
  [][lastOp'.op \in {"TimerFire", "KeyDown"}
       => /\ [regs' EXCEPT !.ax = 0, !.cf = 0] = [regs EXCEPT !.ax = 0, !.cf = 0]
          /\ mem' = mem
          /\ hostError' = hostError]_vars

\* a keydown callback has written AX while CX and DX hold a guest's values
C8_Witness ==
  /\ lastOp.op = "KeyDown" /\ keymap.key = NoKey /\ regs.ax = 90
  /\ regs.dx = 65535 /\ regs.ip = BootIP + 6

\* C12: INT 16h AH=1 does not block: it leaves paused as it was, and it returns
\* ZF=0 exactly when a key that has a scan-code mapping is held, ZF=1 otherwise.
C12_KeyStatus ==
  [][lastOp'.op = "Int16_01"
       => /\ pause' = pause
          /\ ~pause'
          /\ keymap' = keymap
          /\ regs'.zf = IF keymap.key # NoKey /\ keymap.key \in DOMAIN SCAN_CODES_TABLE
                        THEN 0 ELSE 1]_vars

\* the status of a held Enter has been read by the second instruction
C12_Witness ==
  /\ lastOp.op = "Int16_01" /\ keymap.key = 13 /\ regs.zf = 0 /\ ~pause
  /\ regs.ip = BootIP + 4

\* C19: a blocking keyboard read never lets the CPU go on without a key: when
\* the INT 16h AH=0 / AH=10h handler returns, either paused is set or the held
\* key has been taken and its code loaded into AX, also when the only key held
\* is a modifier (key codes 16..18).
C19_ReadGetsKey ==
  [][lastOp'.op \in {"Int16_00", "Int16_10"}
       => \/ pause'
          \/ /\ keymap.key # NoKey
             /\ keymap'.key = NoKey
             /\ keymap.key \in DOMAIN SCAN_CODES_TABLE
                  => regs'.ax = KeyCodeOf(IF lastOp'.op = "Int16_10" THEN "0x10" ELSE "0x0",
                                          keymap.key, keymap.shift)
    ]_vars

\* C20: in every reachable state a registered keyboard wait callback implies
\* paused; a key release clears the key buffer and keeps the pending callback;
\* the callback is removed only by the step that delivers a key into AX and
\* clears paused.
C20_CallbackPaused ==
  /\ [](KbdWait => pause)
  /\ [][ /\ (lastOp'.op = "KeyUp"
               => keymap'.key = NoKey /\ keymap'.callback = keymap.callback)
         /\ (KbdWait /\ ~KbdWait'
               => /\ Delivering
                  /\ ~pause'
                  /\ lastOp'.keyCode \in DOMAIN SCAN_CODES_TABLE
                       => regs'.ax = KeyCodeOf(keymap.callback, lastOp'.keyCode, lastOp'.shift))
       ]_vars

\* a key has been released while a read is pending: the read is still pending
C20_Witness ==
  lastOp.op = "KeyUp" /\ KbdWait /\ pause /\ keymap.key = NoKey /\ keymap.callback = "0x10"

\* C17: the INT 15h/86h timer callback may run twice, and may run after the
\* host has called stop(): a run leaves halted as it was, paused false and CF 0
\* and changes nothing else, and a second run on the state it leaves would
\* leave that state again.
C17_CallbackIdempotent ==
  [][lastOp'.op = "TimerFire"
       => /\ halted' = halted
          /\ ~pause'
          /\ regs' = [regs EXCEPT !.cf = 0]
          /\ TimerCallback(regs') = regs'
          /\ <<mem', keymap', drives', device', screen', vga', hostError', program', ext', pp'>>
               = <<mem, keymap, drives, device, screen, vga, hostError, program, ext, pp>>
    ]_vars

\* the callback of a wait has run after stop()
C17_Witness ==
  lastOp.op = "TimerFire" /\ halted /\ ~pause /\ regs.cf = 0 /\ timers = <<>>
    /\ regs.dx = 1000

\* a blocking read has just handed a key to the guest: the read returned with a
\* held key taken, or the keydown callback of a pending read ran
JustDelivered ==
  \/ lastOp.op \in {"Int16_00", "Int16_10"} /\ ~pause /\ keymap.key = NoKey
  \/ lastOp.op = "KeyDown" /\ keymap.key = NoKey

\* C21: a key press is delivered to at most one blocking read: the step that
\* delivers a key into AX empties the key buffer, and a blocking read that
\* follows it at once pauses with the read pending and AL untouched, until a
\* new keydown event, instead of returning the same key again.
C21_KeyDeliveredOnce ==
  [][ /\ (\/ lastOp'.op \in {"Int16_00", "Int16_10"} /\ keymap.key # NoKey
                /\ ~(keymap.key \in 16..18)
          \/ KbdWait /\ Delivering
            => keymap'.key = NoKey /\ ~KbdWait')
      /\ (JustDelivered /\ lastOp'.op \in {"Int16_00", "Int16_10"}
            => /\ pause' /\ KbdWait'
               /\ Lo(regs'.ax) = Lo(regs.ax))
      /\ (KbdWait /\ ~pause' => Delivering)
    ]_vars

\* 'a' was delivered (AL = 61h) and the read that followed is paused
C21_Witness ==
  /\ lastOp.op = "Int16_00" /\ pause /\ KbdWait /\ regs.ax = 97
  /\ keymap.key = NoKey /\ regs.ip = BootIP + 4

\* C22: at most one resume source is pending: an INT 15h/86h timer and an
\* INT 16h wait callback are never outstanding together, never two timers, and
\* under every interleaving of timer firings and key events paused is cleared
\* only by the resume event of the wait that set it.
C22_OneResumeSource ==
  /\ [](~(timers # <<>> /\ KbdWait) /\ Len(timers) <= 1)
  /\ [][pause /\ ~pause'
          => \/ timers # <<>> /\ lastOp'.op = "TimerFire" /\ timers' = <<>>
             \/ KbdWait /\ Delivering /\ ~KbdWait']_vars
  /\ [][ /\ (timers # <<>> /\ lastOp'.op # "TimerFire" => pause' /\ timers' = timers)
         /\ (KbdWait /\ ~Delivering => pause' /\ KbdWait')]_vars

\* a key was pressed, with focus, while a timer wait is pending: still paused
C22_Witness ==
  /\ lastOp.op = "KeyDown" /\ lastOp.focus /\ lastOp.keyCode = 65
  /\ timers # <<>> /\ pause /\ ~KbdWait /\ keymap.key = 65

----------------------------------------------------------------------------
(* Properties of the interpreter *)

\* the instruction the step executes: the one at CS:IP before the step
Executed == program[Fetch(program, regs.ip)]

\* the step executes an instruction of the program
Executes == lastOp'.op = "Step" /\ Fetch(program, regs.ip) # 0

\* the general registers other than p are as they were
OthersKept(p) ==
  /\ \A q \in {"ax", "bx", "cx", "dx"} \ {p} : regs'[q] = regs[q]
  /\ \A q \in {"ax", "bx", "cx", "dx"} \ {p} : ext'[q] = ext[q]

\* C13: a byte-width ADD or SUB leaves (a op b) & 0xFF in the addressed byte
\* and the carry / borrow out of bit 7 in CF, and writes no other byte of the
\* parent register and no other register; the test program 'mov imm and
\* registers' run from reset ends at HLT with AL=2, BX=5 and CF=0.
C13_ByteAddSub ==
  /\ [][Executes /\ Executed.op \in {"add", "sub"} /\ RegView[Executed.dst].width = 8
          => LET p == RegView[Executed.dst].parent
                 a == Lo(regs[p])
                 b == IF Executed.src = "imm" THEN Executed.imm
                      ELSE Lo(regs[RegView[Executed.src].parent])
                 v == IF Executed.op = "add" THEN a + b ELSE a - b
             IN /\ ~RegView[Executed.dst].high /\ ~(Executed.src # "imm" /\ RegView[Executed.src].high)
                /\ Lo(regs'[p]) = v % 256
                /\ Hi(regs'[p]) = Hi(regs[p])
                /\ regs'.cf = IF v > 255 \/ v < 0 THEN 1 ELSE 0
                /\ OthersKept(p)
                /\ ext'[p] = ext[p]
       ]_vars
  /\ [](program = MovImmTest(3, 1) /\ halted
          => Lo(regs.ax) = 2 /\ regs.bx = 5 /\ regs.cf = 0)

\* the test program has run to HLT
C13_Witness ==
  /\ program = MovImmTest(3, 1) /\ halted /\ lastOp.op = "Step"
  /\ Lo(regs.ax) = 2 /\ regs.bx = 5 /\ regs.cf = 0 /\ regs.ip = BootIP + 24

\* the final add dl, 1 of the scenario-1 program has run, HLT has not
AfterFinalAdd ==
  /\ program = MovImmTest(3, 1) /\ lastOp.op = "Step" /\ ~halted
  /\ Fetch(program, regs.ip) = 11

\* the add dl, 0xFF before it has run
AfterAddFF ==
  /\ program = MovImmTest(3, 1) /\ lastOp.op = "Step"
  /\ Fetch(program, regs.ip) = 10

\* C14 as stated: in the scenario-1 program the final add dl, 1 sets CF=1 and
\* leaves DL=05h
C14_Original ==
  AfterFinalAdd => regs.bx = 5 /\ regs.cf = 1 /\ Lo(regs.dx) = 5

\* C14 amended: in the scenario-1 program, entered at mov dx, bx with BX=5,
\* add dl, 0xFF sets CF=1 and leaves DL=04h, and the final add dl, 1 leaves
\* DL=05h and CF=0.
C14_FinalAdd ==
  /\ (AfterAddFF => regs.bx = 5 /\ regs.cf = 1 /\ Lo(regs.dx) = 4)
  /\ (AfterFinalAdd => regs.bx = 5 /\ regs.cf = 0 /\ Lo(regs.dx) = 5)

C14_Witness ==
  AfterFinalAdd /\ regs.cf = 0 /\ regs.dx = 5 /\ regs.ip = BootIP + 23

\* AND, OR, XOR of two bits
LogicBit(op, x, y) ==
  IF op = "and" THEN x * y
  ELSE IF op = "or" THEN (IF x + y > 0 THEN 1 ELSE 0)
  ELSE (x + y) % 2

\* C15: AND, OR and XOR on the 8, 16 and 32 bit views of AX/CX/DX act on one
\* backing store: every bit of the addressed view is the operation of the
\* operands' bits, the bits of the parent outside the view are kept, the 16 bit
\* view holds the low 16 bits of a 32 bit result; the test program 'alu
\* opcodes' run from reset ends at HLT with AX=1 and CX=1.
C15_LogicViews ==
  /\ [][Executes /\ Executed.op \in {"and", "or", "xor"}
          => LET v == RegView[Executed.dst]
                 p == v.parent
                 bLo == IF Executed.src = "imm" THEN Executed.imm
                        ELSE regs[RegView[Executed.src].parent]
                 bHi == IF Executed.src = "imm" THEN 0
                        ELSE ext[RegView[Executed.src].parent]
             IN /\ \A i \in 0..15 :
                     Bit(regs'[p], i) = IF v.width = 8 /\ i > 7 THEN Bit(regs[p], i)
                                        ELSE LogicBit(Executed.op, Bit(regs[p], i), Bit(bLo, i))
                /\ \A i \in 0..15 :
                     Bit(ext'[p], i) = IF v.width < 32 THEN Bit(ext[p], i)
                                       ELSE LogicBit(Executed.op, Bit(ext[p], i), Bit(bHi, i))
                /\ regs'[p] < 65536 /\ ext'[p] < 65536
                /\ regs'.cf = 0
                /\ OthersKept(p)
       ]_vars
  /\ [](program = AluTest(1) /\ halted => regs.ax = 1 /\ regs.cx = 1)

\* the test program has run to HLT
C15_Witness ==
  /\ program = AluTest(1) /\ halted /\ lastOp.op = "Step"
  /\ regs.ax = 1 /\ regs.cx = 1 /\ regs.dx = 0 /\ ext = ResetExt

\* the services of the model, by the name of their action
ServiceOps ==
  {"Int15_86", "Int16_00", "Int16_01", "Int16_10", "Int13_02",
   "Int10_00", "Int10_02", "Int10_0E", "Int10_0F", "Int10_11"}

\* <<int, AH>> of the services BIOS.ts registers
Registered ==
  ({21} \X {134}) \cup ({22} \X {0, 1, 2, 16}) \cup ({19} \X {0, 2})
    \cup ({16} \X {0, 1, 2, 3, 5, 6, 8, 9, 10, 14, 15, 16, 17, 19})

\* C16: an INT n executed while a device handler is registered for (n, AH) runs
\* that handler, once, and continues at the instruction after the INT without
\* loading CS:IP from the IVT, whatever the IVT entry holds; CS:IP is loaded
\* from IVT entry n only when no handler is registered for (n, AH).
C16_Dispatch ==
  [][ /\ lastOp'.op \in ServiceOps \cup {"IntIVT"}
      /\ (lastOp'.op \in ServiceOps
            => regs'.cs = regs.cs /\ regs'.ip = regs.ip + 2)
      /\ (lastOp'.op = "IntIVT"
            => /\ <<lastOp'.int, Hi(regs'.ax)>> \notin Registered
               /\ IF MemWord(mem, 4 * lastOp'.int) = 0 /\ MemWord(mem, 4 * lastOp'.int + 2) = 0
                  THEN regs'.cs = regs.cs /\ regs'.ip = regs.ip + 2
                  ELSE /\ regs'.ip = MemWord(mem, 4 * lastOp'.int)
                       /\ regs'.cs = MemWord(mem, 4 * lastOp'.int + 2))
      /\ (regs'.cs # regs.cs => lastOp'.op = "IntIVT")
    ]_vars

\* INT 10h AH=0Eh has been served by the BIOS while the IVT holds a vector for
\* INT 10h: execution goes on after the INT
C16_Witness ==
  /\ lastOp.op = "Int10_0E" /\ MemWord(mem, 64) = 32768 /\ MemWord(mem, 66) = 61440
  /\ regs.cs = 0 /\ regs.ip = BootIP + 2

----------------------------------------------------------------------------
(* Properties of the preprocessor *)

\* C18: evalTokensList removes all macro calls: whatever the token list and
\* the macros defined, no KEYWORD token of the list it returns names a macro
\* that is defined, also when the expansion text of a macro is a macro name.
C18_NoMacroLeft ==
  lastOp.op = "evalTokensList"
    => \A i \in 1..Len(pp.tokens) :
         pp.tokens[i].type = "KEYWORD" => ~isCallable(pp.callable, pp.tokens[i].text)

\* C27: defineRuntimeCallable of a name that is defined raises
\* MACRO_ALREADY_EXISTS and leaves the macro table as it was, of any other name
\* makes it callable; a callable name stays callable through every step but
\* clear() and exec(), and both of these drop every earlier definition: clear
\* leaves the table empty, exec leaves only the macros of its own AST.
C27_MacroTable ==
  [][ /\ (lastOp'.op = "defineRuntimeCallable"
            => IF pp.callable[lastOp'.name] # NULL
               THEN pp'.error = "MACRO_ALREADY_EXISTS" /\ pp'.callable = pp.callable
               ELSE pp'.error = NULL /\ isCallable(pp'.callable, lastOp'.name))
      /\ \A name \in MacroNames :
            pp.callable[name] # NULL /\ pp'.callable[name] = NULL
              => lastOp'.op \in {"clear", "exec"}
      /\ (lastOp'.op = "clear" => \A name \in MacroNames : ~isCallable(pp'.callable, name))
      /\ (lastOp'.op = "exec"
            => \A name \in MacroNames :
                 isCallable(pp'.callable, name)
                   => \E i \in 1..Len(lastOp'.ast) :
                        /\ lastOp'.ast[i].name = name
                        /\ lastOp'.ast[i].text = pp'.callable[name])
    ]_vars

\* a second definition of A has been rejected and A still names its first text
C27_Witness ==
  /\ lastOp.op = "defineRuntimeCallable" /\ lastOp.name = "A"
  /\ pp.error = "MACRO_ALREADY_EXISTS"
  /\ pp.callable["A"] = "x" /\ pp.callable["B"] = "B"

----------------------------------------------------------------------------
(* Properties of the disk service *)

AH == Hi(regs.ax)
AL == Lo(regs.ax)

\* the registers of the read that has just run, as the caller loaded them
ReadDest == (regs.es * 16 + regs.bx) % 1048576

\* C6's reading of CX and DH: cylinder, 1-based sector, head
ChsCylinder == Hi(regs.cx) + 256 * (Lo(regs.cx) \div 64)
ChsSector == Lo(regs.cx) % 64
ChsHead == Hi(regs.dx)
ChsOffset == ((ChsCylinder * 2 + ChsHead) * 18 + ChsSector - 1) * 512

\* every requested sector lies inside the image, the destination inside memory
ReadFits ==
  /\ Lo(regs.dx) \in DOMAIN drives
  /\ drives[Lo(regs.dx)].buffer # NULL
  /\ \A i \in 0..(AL - 1) :
        ChsOffset + i * 512 >= 0 /\ ChsOffset + (i + 1) * 512 <= ImageLen
  /\ ReadDest + AL * 512 <= 1048576

\* C4: INT 13h AH=02h ends with CF=0 and AH=0 exactly when all AL sectors lie
\* inside the drive image and the destination range lies inside the 1 MiB
\* memory, and with CF=1 and AH=0BBh in every other case.
C4_ReadStatus ==
  lastOp.op = "Int13_02" =>
    IF ReadFits THEN regs.cf = 0 /\ AH = 0 ELSE regs.cf = 1 /\ AH = 187

\* C5: after a successful read every byte of the destination range holds the
\* image byte at the same distance from src, no byte outside the range has
\* changed, and the boot-sector read (CH=0 CL=1 DH=0 DL=0 AL=1 BX=7E00h) puts
\* exactly the first 512 bytes of the image at ES:7E00h.
C5_ReadCopies ==
  [][lastOp'.op = "Int13_02" /\ ~hostError' /\ regs'.cf = 0 /\ Hi(regs'.ax) = 0
       => LET n == Lo(regs'.ax) * 512
              dest == (regs'.es * 16 + regs'.bx) % 1048576
              range == {dest + i : i \in 0..(n - 1)}
          IN /\ \A i \in 0..(n - 1) :
                   /\ dest + i \in DOMAIN mem'
                   /\ mem'[dest + i] = ImageByte(lastOp'.src + i)
             /\ DOMAIN mem' = DOMAIN mem \cup range
             /\ \A a \in DOMAIN mem \ range : mem'[a] = mem[a]
             /\ (regs'.cx = 1 /\ regs'.dx = 0 /\ n = 512 /\ regs'.bx = 32256
                  => /\ lastOp'.src = 0
                     /\ range = {regs'.es * 16 + 32256 + i : i \in 0..511}
                     /\ \A i \in 0..511 : mem'[regs'.es * 16 + 32256 + i] = ImageByte(i))
    ]_vars

\* the boot-sector read has succeeded on top of an earlier read elsewhere
C5_Witness ==
  /\ lastOp.op = "Int13_02" /\ regs.cf = 0 /\ AH = 0 /\ AL = 1
  /\ regs.cx = 1 /\ regs.dx = 0 /\ regs.es = 0 /\ regs.bx = 32256
  /\ 32256 + 511 \in DOMAIN mem /\ mem[32256 + 3] = ImageByte(3)
  /\ 32256 + 512 \in DOMAIN mem

\* C6: the read starts at image offset ((cylinder*2 + head)*18 + sector - 1)*512
\* with cylinder = CH + 256*(CL bits 7..6), sector = CL bits 5..0, head = DH,
\* the geometry being the heads=2, sectors=18 of BIOS init.
C6_ChsDecode ==
  lastOp.op = "Int13_02" /\ Lo(regs.dx) \in DOMAIN drives
    => /\ drives[Lo(regs.dx)].info.heads = 2
       /\ drives[Lo(regs.dx)].info.sectors = 18
       /\ lastOp.src = ChsOffset
       /\ (~hostError /\ regs.cf = 0 /\ AL > 0
            => /\ mem[ReadDest] = (ChsOffset \div 512) % 256
               /\ mem[ReadDest + 1] = (ChsOffset \div (512 * 256)) % 256)

\* sector 1 of cylinder 256 (CL bits 7..6 = 01b) has been read
C6_Witness ==
  /\ lastOp.op = "Int13_02" /\ regs.cx = 65 /\ regs.cf = 0 /\ AH = 0 /\ AL = 1
  /\ lastOp.src = 4718592 /\ mem[ReadDest + 1] = 36

\* C23: INT 13h AH=02h ends with a status in CF/AH for every DL: for a DL that
\* names no drive of the BIOS it reports an error with CF=1, as AH=0 does with
\* AH=6 and CF=1, and raises no host exception.
C23_UnknownDrive ==
  /\ (lastOp.op = "Int13_00" /\ Lo(regs.dx) \notin DOMAIN drives
        => ~hostError /\ regs.cf = 1 /\ AH = 6)
  /\ (lastOp.op = "Int13_02" /\ Lo(regs.dx) \notin DOMAIN drives
        => ~hostError /\ regs.cf = 1)

\* sector i of the read that the step makes is reached by the copy loop: the
\* sectors before it were copied whole and its destination lies inside memory
SectorReached(i, dest, src) ==
  /\ \A j \in 0..(i - 1) : src + j * 512 >= 0 /\ src + (j + 1) * 512 <= ImageLen
  /\ dest + (i + 1) * 512 <= 1048576

\* the number of image bytes there are for sector i
SectorBytes(i, src) ==
  IF src + i * 512 < 0 \/ src + i * 512 >= ImageLen THEN 0
  ELSE IF src + (i + 1) * 512 <= ImageLen THEN 512
  ELSE ImageLen - (src + i * 512)

\* C24: a failed INT 13h AH=02h is not rolled back and stays inside memory:
\* the sectors copied before the failing one are in guest memory, of a sector
\* that overruns the image the bytes up to the end of the image are copied,
\* nothing else is written, and no byte at or beyond 1 MiB is ever written.
C24_FailedRead ==
  /\ [](\A a \in DOMAIN mem : a >= 0 /\ a < 1048576)
  /\ [][lastOp'.op = "Int13_02" /\ Lo(regs'.dx) \in DOMAIN drives
          /\ drives'[Lo(regs'.dx)].buffer # NULL
          /\ (hostError' \/ regs'.cf = 1)
          => LET dest == (regs'.es * 16 + regs'.bx) % 1048576
                 src == lastOp'.src
                 copied == {<<i, k>> \in (0..(Lo(regs'.ax) - 1)) \X (0..511) :
                              SectorReached(i, dest, src) /\ k < SectorBytes(i, src)}
             IN /\ \A c \in copied :
                     /\ dest + c[1] * 512 + c[2] \in DOMAIN mem'
                     /\ mem'[dest + c[1] * 512 + c[2]] = ImageByte(src + c[1] * 512 + c[2])
                /\ DOMAIN mem' = DOMAIN mem \cup {dest + c[1] * 512 + c[2] : c \in copied}
                /\ \A a \in DOMAIN mem \ {dest + c[1] * 512 + c[2] : c \in copied} :
                     mem'[a] = mem[a]
       ]_vars

\* a read of two sectors from the last whole sector of the image has failed:
\* the whole sector and the short tail after it are in memory
C24_Witness ==
  /\ lastOp.op = "Int13_02" /\ regs.cf = 1 /\ AH = 187 /\ AL = 2 /\ regs.cx = 65
  /\ ~hostError
  /\ ReadDest + 511 \in DOMAIN mem /\ mem[ReadDest + 511] = ImageByte(lastOp.src + 511)
  /\ ReadDest + 512 + ImageTail - 1 \in DOMAIN mem
  /\ ReadDest + 512 + ImageTail \notin DOMAIN mem

----------------------------------------------------------------------------
(* Properties of the video service *)

C10_ModeRoundTrip ==
  [][ /\ (lastOp'.op = "Int10_00"
            => IF Lo(regs'.ax) \in {0, 1, 2, 3, 4, 17, 18, 19}
               THEN screen'.mode.code = Lo(regs'.ax)
               ELSE screen'.mode = screen.mode)
      /\ (lastOp'.op = "Int10_0F" /\ screen.mode # NoMode
            => /\ Lo(regs'.ax) = screen.mode.code
               /\ Hi(regs'.ax) = screen.mode.w)
    ]_vars

\* C11: INT 10h AH=11h with AL=12h makes the extended 80x50 text mode the
\* current mode (width 80, height 50); with any other AL the mode is unchanged.
C11_FontMode ==
  [][lastOp'.op = "Int10_11"
       => IF Lo(regs'.ax) = 18
          THEN screen'.mode.w = 80 /\ screen'.mode.h = 50
          ELSE screen'.mode = screen.mode]_vars

\* C25: in text mode INT 10h AH=09h and AH=0Ah store AL in the CX consecutive
\* cells that start at the cursor cell (running on into the next row) and
\* leave the VGA cursor where it was.
C25_WriteCharacters ==
  [][ /\ lastOp'.op \in {"Int10_09", "Int10_0A"}
      /\ vga.textMode /\ screen.mode # NoMode
      /\ vga.cursor.x < screen.mode.w
      => LET first == 753664 + (vga.cursor.y * screen.mode.w + vga.cursor.x) * 2
         IN /\ ~hostError'
            /\ \A i \in 0 .. regs'.cx - 1 :
                 /\ first + 2 * i \in DOMAIN mem'
                 /\ mem'[first + 2 * i] = Lo(regs'.ax)
            /\ vga'.cursor = vga.cursor
    ]_vars

\* C26: in text mode an INT 10h AH=0Eh call that starts with the cursor on
\* screen ends with the cursor on screen.
C26_CursorOnScreen ==
  [][ /\ lastOp'.op = "Int10_0E"
      /\ vga.textMode /\ screen.mode # NoMode
      /\ vga.cursor.x >= 0 /\ vga.cursor.x < screen.mode.w
      /\ vga.cursor.y >= 0 /\ vga.cursor.y < screen.mode.h
      => /\ vga'.cursor.x >= 0 /\ vga'.cursor.x < screen.mode.w
         /\ vga'.cursor.y >= 0 /\ vga'.cursor.y < screen.mode.h
    ]_vars

====
